---------------------------- MODULE Spec2Model ----------------------------
(***************************************************************************)
(* A model of SPoSE's non-negative embedding models (models/nmf.py) and of *)
(* the batch iteration protocol and numerical helpers of utils.py.         *)
(*                                                                         *)
(* Tensors are sequences (vectors) and sequences of rows (matrices), with  *)
(* 1-based positions; a Python index k is position k+1.  Floating point    *)
(* values are represented by integers (a fixed-point scale); Python's None *)
(* is the empty sequence <<>> for optional numbers and the string "None"   *)
(* for the optional string sampling_method.                                *)
(***************************************************************************)
EXTENDS Integers, Sequences, FiniteSets, TLC

VARIABLES
    net,            \* nmf.py: the nn.Module under training (its kind and parameters)
    logits,         \* nmf.py: the value returned by the last forward call (<<>>: none)
    args,           \* utils.py load_batches: the arguments of the call
    loaded,         \* utils.py load_batches: what the call returned or raised
    iter,           \* utils.py BatchGenerator.get_batches: the running generator
    call,           \* utils.py helper functions: the function called and its input
    ret             \* utils.py helper functions: what the call returned or raised

vars == <<net, logits, args, loaded, iter, call, ret>>
nmfVars == <<net, logits>>
genVars == <<args, loaded, iter>>
utilVars == <<call, ret>>

----------------------------------------------------------------------------
(* Bounds of the model.                                                    *)

NSamples == 3        \* n_samples of the NMF models (objects)
NComponents == 1     \* n_components of the NMF models (latent dimensions)
MaxVal == 2          \* the magnitude of a non-zero parameter value

\* The values a parameter is initialised or updated to: one of each sign.
Vals == {0 - MaxVal, 0, MaxVal}

----------------------------------------------------------------------------
(* Tensor helpers.                                                         *)

Abs(v) == IF v < 0 THEN 0 - v ELSE v

RECURSIVE ISqrtFrom(_, _)
ISqrtFrom(v, r) == IF (r + 1) * (r + 1) > v THEN r ELSE ISqrtFrom(v, r + 1)

\* torch.sqrt on the fixed-point scale: the root rounded down.
Sqrt(v) == ISqrtFrom(v, 0)

\* The matrices with r rows and c columns over the set S.
Matrices(r, c, S) == [1..r -> [1..c -> S]]
Vectors(n, S) == [1..n -> S]

\* M.T for a matrix with r rows and c columns.
Transpose(M, r, c) == [j \in 1..c |-> [i \in 1..r |-> M[i][j]]]

\* The sums u[1]*v[1] + ... + u[t]*v[t] and u[1]*Y[1][j] + ... + u[t]*Y[t][j].
RECURSIVE Dot(_, _, _)
Dot(u, v, t) == IF t = 0 THEN 0 ELSE u[t] * v[t] + Dot(u, v, t - 1)

RECURSIVE DotCol(_, _, _, _)
DotCol(u, Y, j, t) == IF t = 0 THEN 0 ELSE u[t] * Y[t][j] + DotCol(u, Y, j, t - 1)

\* X @ Y for X with k columns (and Y with k rows and c columns).
MatMul(X, Y, k, c) ==
    [i \in 1..Len(X) |-> [j \in 1..c |-> DotCol(X[i], Y, j, k)]]

\* Tensor.abs() of a matrix.
MatAbs(M) == [i \in 1..Len(M) |-> [j \in 1..Len(M[i]) |-> Abs(M[i][j])]]

\* torch.eye(n)
Eye(n) == [i \in 1..n |-> [j \in 1..n |-> IF i = j THEN 1 ELSE 0]]

\* nn.Linear(bias=False): x @ weight.T, weight of shape (out, in).
Linear(weight, x, nin, nout) ==
    [i \in 1..Len(x) |-> [j \in 1..nout |-> Dot(x[i], weight[j], nin)]]

----------------------------------------------------------------------------
(* models/nmf.py: the four models.  H is never read by forward and is      *)
(* left out of the parameters.                                             *)

Kinds == {"NeuralNMF__", "NeuralNMF_", "NeuralNMF", "BatchNMF"}

\* The W handed to the constructors: a non-negative NMF solution,
\* n_samples x n_components.
SuppliedW == Matrices(NSamples, NComponents, {0, MaxVal})

\* NeuralNMF__.__init__: W.weight = W.T (frozen), a = randn(n_components).
NeuralNMF__Init(W, a0) ==
    [kind |-> "NeuralNMF__", weight |-> Transpose(W, NSamples, NComponents), a |-> a0]

\* NeuralNMF_.__init__: W.weight = W.T (frozen), A = Linear(n_components, n_components).
NeuralNMF_Init(W, A0) ==
    [kind |-> "NeuralNMF_", weight |-> Transpose(W, NSamples, NComponents), A |-> A0]

\* NeuralNMF.__init__: W.weight = W.T when init_weights (W is then required),
\* else the Linear's own initialisation W0 (any sign).
NeuralNMFInit(init_weights, W, W0) ==
    [kind |-> "NeuralNMF",
     weight |-> IF init_weights THEN Transpose(W, NSamples, NComponents) ELSE W0]

\* BatchNMF.__init__: W = the supplied W when init_weights, else randn.
BatchNMFInit(init_weights, W, W0) ==
    [kind |-> "BatchNMF", W |-> IF init_weights THEN W ELSE W0]

\* NeuralNMF__.forward: logits = self.W(x) * self.a.abs().sqrt()
NeuralNMF__forward(n, x) ==
    LET z == Linear(n.weight, x, NSamples, NComponents)
        s == [c \in 1..NComponents |-> Sqrt(Abs(n.a[c]))]
    IN  [net |-> n,
         logits |-> [i \in 1..Len(x) |-> [c \in 1..NComponents |-> z[i][c] * s[c]]]]

\* NeuralNMF_.forward: self.A.weight.data.abs_(); z = self.W(x); logits = self.A(z)
NeuralNMF_forward(n, x) ==
    LET A1 == MatAbs(n.A)
        z == Linear(n.weight, x, NSamples, NComponents)
    IN  [net |-> [n EXCEPT !.A = A1],
         logits |-> Linear(A1, z, NComponents, NComponents)]

NeuralNMFforwardNoAbs(n, x) ==
    [net |-> n, logits |-> Linear(n.weight, x, NSamples, NComponents)]

\* NeuralNMF.forward: self.W.weight.data.abs_(); logits = self.W(x)
NeuralNMFforward(n, x) ==
    LET W1 == MatAbs(n.weight)
    IN  [net |-> [n EXCEPT !.weight = W1],
         logits |-> Linear(W1, x, NSamples, NComponents)]

\* BatchNMF.forward: logits = x @ self.W.abs()
BatchNMFforward(n, x) ==
    [net |-> n, logits |-> MatMul(x, MatAbs(n.W), NSamples, NComponents)]

forward(n, x) ==
    CASE n.kind = "NeuralNMF__" -> NeuralNMF__forward(n, x)
      [] n.kind = "NeuralNMF_" -> NeuralNMF_forward(n, x)
      [] n.kind = "NeuralNMF" -> NeuralNMFforward(n, x)
      [] n.kind = "BatchNMF" -> BatchNMFforward(n, x)

\* The one-hot input batches: forward treats the rows of a batch one by one,
\* and the batches fed here hold one row of the identity.
OneHotBatches == {<<Eye(NSamples)[s]>> : s \in 1..NSamples}

NoNet == [kind |-> "none"]

NMFIdle == net = NoNet /\ logits = <<>>

NMFInit ==
    /\ \/ \E W \in SuppliedW, a0 \in Vectors(NComponents, Vals) :
             net = NeuralNMF__Init(W, a0)
       \/ \E W \in SuppliedW, A0 \in Matrices(NComponents, NComponents, Vals) :
             net = NeuralNMF_Init(W, A0)
       \/ \E W \in SuppliedW : net = NeuralNMFInit(TRUE, W, <<>>)
       \/ \E W0 \in Matrices(NComponents, NSamples, Vals) :
             net = NeuralNMFInit(FALSE, <<>>, W0)
       \/ \E W \in SuppliedW : net = BatchNMFInit(TRUE, W, <<>>)
       \/ \E W0 \in Matrices(NSamples, NComponents, Vals) :
             net = BatchNMFInit(FALSE, <<>>, W0)
    /\ logits = <<>>

\* model(batch): forward runs, may rewrite the parameters in place, and
\* returns the embedding.
Forward ==
    /\ net.kind \in Kinds
    /\ \E x \in OneHotBatches :
          LET r == forward(net, x)
          IN  net' = r.net /\ logits' = r.logits
    /\ UNCHANGED <<genVars, utilVars>>

\* The parameters with requires_grad, by kind (W.weight of the first two
\* models is frozen).
Trainable(kind) ==
    CASE kind = "NeuralNMF__" -> "a"
      [] kind = "NeuralNMF_" -> "A"
      [] kind = "NeuralNMF" -> "weight"
      [] kind = "BatchNMF" -> "W"

\* optimizer.step(): an entry of a trainable parameter gets a new value of
\* either sign; the embedding of the finished step is dropped.
Update ==
    /\ net.kind \in Kinds
    /\ \E v \in Vals :
          IF net.kind = "NeuralNMF__"
          THEN \E c \in DOMAIN net.a : net' = [net EXCEPT !.a[c] = v]
          ELSE LET f == Trainable(net.kind)
               IN  \E i \in DOMAIN net[f] : \E j \in DOMAIN net[f][i] :
                      net' = [net EXCEPT ![f][i][j] = v]
    /\ logits' = <<>>
    /\ UNCHANGED <<genVars, utilVars>>

----------------------------------------------------------------------------
(* utils.py: triplet datasets, one-hot encoding and BatchGenerator.        *)

NItems == 3          \* items of the triplet datasets (ids 0..NItems-1)
MaxN == 3            \* triplets of a training dataset
MaxTest == 2         \* triplets of a test dataset
MaxBatch == 2        \* batch_size ranges over 1..MaxBatch

None == <<>>
Some(v) == <<v>>

Min(a, b) == IF a < b THEN a ELSE b

\* The k-th triplet of the data files read by load_data (item ids from 0).
Triplet(k) == <<k % NItems, (k + 1) % NItems, (k + 2) % NItems>>

TrainSet(n) == [k \in 1..n |-> Triplet(k - 1)]
TestSet(n) == [k \in 1..n |-> Triplet(k)]

\* The values of p: None, or a float given as <<numerator, denominator>>.
Fractions == {<<1, 2>>, <<9, 10>>, <<1, 1>>}

\* int(n * p) for a float p >= 0.
IntTimes(n, p) == (n * p[1]) \div p[2]

\* Python's s[a:b] for 0 <= a <= b: the slice is cut at the end of s.
Slice(s, a, b) == SubSeq(s, Min(a, Len(s)) + 1, Min(b, Len(s)))

\* triplets.flatten(): the item ids row by row.
flatten(triplets) ==
    [r \in 1..(3 * Len(triplets)) |-> triplets[((r - 1) \div 3) + 1][((r - 1) % 3) + 1]]

\* Indexing a tensor of n rows by id raises IndexError outside -n..n-1.
IndexError(I, triplets) ==
    \E r \in DOMAIN flatten(triplets) :
        flatten(triplets)[r] >= Len(I) \/ flatten(triplets)[r] < 0 - Len(I)

PyRowShifted(I, id) == I[((id + 1) % Len(I)) + 1]

\* The row of an n-row tensor that Python index id names (negative ids count
\* from the end).
PyRow(I, id) == IF id < 0 THEN I[Len(I) + id + 1] ELSE I[id + 1]

\* encode_as_onehot: I[triplets.flatten(), :]
encode_as_onehot(I, triplets) ==
    [r \in 1..(3 * Len(triplets)) |-> PyRow(I, flatten(triplets)[r])]

\* batch.nonzero(as_tuple=True)[-1]: the columns (from 0) of the non-zero
\* entries, row by row and left to right within a row.
RECURSIVE NonzeroFrom(_, _, _)
NonzeroFrom(batch, r, c) ==
    IF r > Len(batch) THEN <<>>
    ELSE IF c > Len(batch[r]) THEN NonzeroFrom(batch, r + 1, 1)
    ELSE IF batch[r][c] # 0 THEN <<c - 1>> \o NonzeroFrom(batch, r, c + 1)
    ELSE NonzeroFrom(batch, r, c + 1)

nonzero(batch) == NonzeroFrom(batch, 1, 1)

\* Tensor.view(rows, -1) of a vector: rows rows of equal length; a
\* RuntimeError when that shape does not fit.
ViewError(v, rows) == rows = 0 \/ Len(v) % rows # 0
view(v, rows) ==
    [r \in 1..rows |-> SubSeq(v, (r - 1) * (Len(v) \div rows) + 1, r * (Len(v) \div rows))]

\* human_choices of test and validation: the item ids read back from a batch.
human_choices(batch, batch_size) == view(nonzero(batch), batch_size)

BatchGeneratorInitCeil(I, dataset, batch_size, sampling_method, p) ==
    IF sampling_method = "soft" /\ p = None
    THEN [status |-> "AssertionError"]
    ELSE [status |-> "ok",
          I |-> I, dataset |-> dataset, batch_size |-> batch_size,
          sampling_method |-> sampling_method, p |-> p,
          n_batches |-> IF sampling_method = "soft"
                        THEN (IntTimes(Len(dataset), p[1]) + batch_size - 1) \div batch_size
                        ELSE (Len(dataset) + batch_size - 1) \div batch_size]

\* BatchGenerator.__init__: the generator, or the assertion's failure.
BatchGeneratorInit(I, dataset, batch_size, sampling_method, p) ==
    IF sampling_method = "soft" /\ p = None
    THEN [status |-> "AssertionError"]
    ELSE [status |-> "ok",
          I |-> I, dataset |-> dataset, batch_size |-> batch_size,
          sampling_method |-> sampling_method, p |-> p,
          n_batches |-> IF sampling_method = "soft"
                        THEN IntTimes(Len(dataset), p[1]) \div batch_size
                        ELSE Len(dataset) \div batch_size]

\* BatchGenerator.__len__
BatchGeneratorLen(g) == g.n_batches

\* torch.randperm(n): the permutations of the positions 1..n.
RandPerms(n) == {f \in [1..n -> 1..n] : \A a, b \in 1..n : f[a] = f[b] => a = b}

samplingWithReplacement(g, rnd_perm) == [k \in 1..Len(rnd_perm) |-> rnd_perm[1]]

\* BatchGenerator.sampling for the permutation torch.randperm drew: the
\* positions kept (all of them, or the first int(len * p) for 'soft').
samplingPerm(g, rnd_perm) ==
    IF g.sampling_method = "soft"
    THEN Slice(rnd_perm, 0, IntTimes(Len(rnd_perm), g.p[1]))
    ELSE rnd_perm

\* triplets[rnd_perm]: a new tensor holding the rows at the positions.
IndexRows(triplets, positions) == [k \in 1..Len(positions) |-> triplets[positions[k]]]

----------------------------------------------------------------------------
(* utils.py: load_batches and the iteration over a BatchGenerator.         *)

MaxGpus == 2         \* n_gpus ranges over 1..MaxGpus

NoCall == [fn |-> "none"]
NoRet == [status |-> "none"]

\* TripletDataset.__init__ and __len__
TripletDataset(I, dataset) == [I |-> I, dataset |-> dataset]
TripletDatasetLen(d) == Len(d.dataset)

\* The warnings load_batches emits in the multi-process branch.
SoftWarningsAlways(sampling_method) ==
    <<"RuntimeWarning", "RuntimeWarning", "UserWarning">>

SoftWarnings(sampling_method) ==
    IF sampling_method = "soft"
    THEN <<"RuntimeWarning", "RuntimeWarning", "UserWarning">>
    ELSE <<>>

\* load_batches(train_triplets, test_triplets, n_items, batch_size, inference,
\* sampling_method, rnd_seed, multi_proc, n_gpus, p): what it returns or raises.
load_batches(a) ==
    LET I == Eye(a.n_items)
    IN  IF a.inference
        THEN IF a.train_triplets # None
             THEN [status |-> "AssertionError", warnings |-> <<>>]
             ELSE [status |-> "ok", kind |-> "inference", warnings |-> <<>>,
                   test_batches |->
                       BatchGeneratorInit(I, a.test_triplets, a.batch_size, "None", None)]
        ELSE IF a.multi_proc /\ a.n_gpus = None
        THEN [status |-> "TypeError", warnings |-> <<>>]
        ELSE IF a.multi_proc /\ a.n_gpus[1] > 1
        THEN LET train_set == TripletDataset(I, a.train_triplets[1])
                 val_set == TripletDataset(I, a.test_triplets)
             IN  [status |-> "ok", kind |-> "loaders",
                  warnings |-> SoftWarnings(a.sampling_method),
                  train_batches |->
                      [dataset |-> train_set, batch_size |-> a.batch_size,
                       sampler |-> [kind |-> "DistributedSampler", shuffle |-> TRUE,
                                    seed |-> a.rnd_seed],
                       num_workers |-> a.n_gpus[1]],
                  val_batches |->
                      [dataset |-> val_set, batch_size |-> a.batch_size,
                       sampler |-> [kind |-> "SequentialSampler", shuffle |-> FALSE,
                                    seed |-> None],
                       num_workers |-> a.n_gpus[1]]]
        ELSE LET train_batches ==
                     BatchGeneratorInit(I, a.train_triplets[1], a.batch_size,
                                        a.sampling_method, a.p)
                 val_batches ==
                     BatchGeneratorInit(I, a.test_triplets, a.batch_size, "None", None)
             IN  IF train_batches.status # "ok"
                 THEN [status |-> train_batches.status, warnings |-> <<>>]
                 ELSE [status |-> "ok", kind |-> "generators", warnings |-> <<>>,
                       train_batches |-> train_batches, val_batches |-> val_batches]

SamplingMethods == {"None", "normal", "soft"}

\* The calls of load_batches: training calls, and inference calls with the
\* other arguments at their defaults.
LoadCalls ==
    {[fn |-> "load_batches", train_triplets |-> Some(TrainSet(n)),
      test_triplets |-> TestSet(m), n_items |-> NItems, batch_size |-> b,
      inference |-> FALSE, sampling_method |-> sm, rnd_seed |-> None,
      multi_proc |-> mg[1], n_gpus |-> mg[2], p |-> p] :
        n \in 0..MaxN, m \in 0..MaxTest, b \in 1..MaxBatch, sm \in SamplingMethods,
        mg \in {<<FALSE, None>>} \cup ({TRUE} \X ({None} \cup {Some(g) : g \in 1..MaxGpus})),
        p \in {None} \cup {Some(f) : f \in Fractions}}
    \cup
    {[fn |-> "load_batches", train_triplets |-> t,
      test_triplets |-> TestSet(m), n_items |-> NItems, batch_size |-> b,
      inference |-> TRUE, sampling_method |-> "None", rnd_seed |-> None,
      multi_proc |-> FALSE, n_gpus |-> None, p |-> None] :
        t \in {None, Some(TrainSet(MaxN))}, m \in 0..MaxTest, b \in 1..MaxBatch}

NoIter == [state |-> "none"]

LoadInit == args \in LoadCalls /\ loaded = NoRet /\ iter = NoIter

\* The call of load_batches returns or raises.
LoadBatches ==
    /\ args.fn = "load_batches"
    /\ loaded = NoRet
    /\ loaded' = load_batches(args)
    /\ UNCHANGED <<args, iter, nmfVars, utilVars>>

\* The BatchGenerators a finished call handed out.
Generators ==
    IF loaded.status # "ok" THEN {}
    ELSE IF loaded.kind = "generators" THEN {"train_batches", "val_batches"}
    ELSE IF loaded.kind = "inference" THEN {"test_batches"}
    ELSE {}

\* BatchGenerator.__iter__: a new run of get_batches(self.I, self.dataset);
\* its body starts at the first next().
Iter ==
    /\ iter.state \in {"none", "exhausted"}
    /\ \E w \in Generators : iter' = [state |-> "created", gen |-> w]
    /\ UNCHANGED <<args, loaded, nmfVars, utilVars>>

\* The loop of get_batches at index i: the next batch is yielded, or the
\* loop is over.
LoopStep(g, w, positions, triplets, i, count) ==
    IF i < g.n_batches
    THEN [state |-> "yielded", gen |-> w, positions |-> positions,
          triplets |-> triplets, i |-> i, count |-> count + 1,
          batch |-> encode_as_onehot(g.I,
                        Slice(triplets, i * g.batch_size, (i + 1) * g.batch_size))]
    ELSE [state |-> "exhausted", gen |-> w, positions |-> positions,
          triplets |-> triplets, i |-> i, count |-> count]

\* next() on the generator: the first one samples the triplets (positions
\* records which dataset row each sampled row is), every one runs the loop
\* to its next yield or to its end.
NextBatch ==
    /\ iter.state \in {"created", "yielded"}
    /\ LET g == loaded[iter.gen]
       IN  IF iter.state = "created"
           THEN IF g.sampling_method # "None"
                THEN \E rnd_perm \in RandPerms(Len(g.dataset)) :
                        LET positions == samplingPerm(g, rnd_perm)
                        IN  iter' = LoopStep(g, iter.gen, positions,
                                             IndexRows(g.dataset, positions), 0, 0)
                ELSE iter' = LoopStep(g, iter.gen, [k \in 1..Len(g.dataset) |-> k],
                                      g.dataset, 0, 0)
           ELSE iter' = LoopStep(g, iter.gen, iter.positions, iter.triplets,
                                 iter.i + 1, iter.count)
    /\ UNCHANGED <<args, loaded, nmfVars, utilVars>>

----------------------------------------------------------------------------
(* utils.py: encode_as_onehot and get_nitems on tensors of triplets.       *)

MaxK == 2            \* triplets of a tensor handed to a helper
EncItems == 2        \* n_items of the identity handed to encode_as_onehot

\* The tensors of k triplets with item ids in 0..n-1.
TripletTensors(n, k) == [1..k -> [1..3 -> 0..(n - 1)]]

\* The calls encode_as_onehot(torch.eye(n_items), triplets).
EncodeCall(c) ==
    \E n \in 1..EncItems, k \in 0..MaxK : \E t \in TripletTensors(n, k) :
        c = [fn |-> "encode_as_onehot", n_items |-> n, triplets |-> t]

\* encode_as_onehot(I, triplets) with I = torch.eye(n_items) returns.
EncodeAsOnehot ==
    /\ call.fn = "encode_as_onehot"
    /\ ret = NoRet
    /\ ret' = IF IndexError(Eye(call.n_items), call.triplets)
              THEN [status |-> "IndexError"]
              ELSE [status |-> "ok",
                    value |-> encode_as_onehot(Eye(call.n_items), call.triplets)]
    /\ UNCHANGED <<call, nmfVars, genVars>>

RECURSIVE SeqMax(_)
SeqMax(v) ==
    IF Len(v) = 1 THEN v[1]
    ELSE LET m == SeqMax(Tail(v)) IN IF v[1] > m THEN v[1] ELSE m

RECURSIVE SeqMin(_)
SeqMin(v) ==
    IF Len(v) = 1 THEN v[1]
    ELSE LET m == SeqMin(Tail(v)) IN IF v[1] < m THEN v[1] ELSE m

\* get_nitems: torch.max(train_triplets), plus one when torch.min is 0.
get_nitems(train_triplets) ==
    LET n_items == SeqMax(flatten(train_triplets))
    IN  IF SeqMin(flatten(train_triplets)) = 0 THEN n_items + 1 ELSE n_items

\* The calls get_nitems(train_triplets) on a non-empty tensor.
NitemsCall(c) ==
    \E k \in 1..MaxK : \E t \in TripletTensors(NItems, k) :
        c = [fn |-> "get_nitems", train_triplets |-> t]

\* get_nitems(train_triplets) returns.
GetNitems ==
    /\ call.fn = "get_nitems"
    /\ ret = NoRet
    /\ ret' = [status |-> "ok", value |-> get_nitems(call.train_triplets)]
    /\ UNCHANGED <<call, nmfVars, genVars>>

----------------------------------------------------------------------------
(* utils.py: fill_diag.  The entries of an RSM are counted in units of     *)
(* 1e-8, the absolute tolerance of np.allclose.                            *)

RsmDim == 2          \* rows (and columns) of an RSM
MaxEntry == 2        \* RSM entries range over 0..MaxEntry units

Atol == 1            \* np.allclose: atol = 1e-08, one unit
RtolInv == 100000    \* np.allclose: rtol = 1e-05 = 1 / RtolInv
One == 100000000     \* the value 1 in units of 1e-8

\* An exact comparison with the transpose.
allequal(a, b) ==
    \A i \in DOMAIN a : \A j \in DOMAIN a[i] : a[i][j] = b[i][j]

\* np.allclose(a, b): |a - b| <= atol + rtol * |b| for every entry.
allclose(a, b) ==
    \A i \in DOMAIN a : \A j \in DOMAIN a[i] :
        (Abs(a[i][j] - b[i][j]) - Atol) * RtolInv <= Abs(b[i][j])

\* rsm[np.eye(len(rsm)) == 1.] = 1
FillMask(rsm) ==
    [i \in 1..Len(rsm) |-> [j \in 1..Len(rsm) |->
        IF Eye(Len(rsm))[i][j] = 1 THEN One ELSE rsm[i][j]]]

\* fill_diag(rsm): the assertion's failure, or the matrix (the argument
\* itself, written in place) with its diagonal filled.
fill_diag(rsm) ==
    IF ~allclose(rsm, Transpose(rsm, Len(rsm), Len(rsm)))
    THEN [status |-> "AssertionError", rsm |-> rsm]
    ELSE [status |-> "ok", rsm |-> FillMask(rsm)]

\* The calls fill_diag(rsm) on a square matrix.
FillDiagCall(c) ==
    \E n \in 1..RsmDim : \E m \in Matrices(n, n, 0..MaxEntry) :
        c = [fn |-> "fill_diag", rsm |-> m]

\* fill_diag(rsm) returns or raises; ret.rsm is the caller's matrix after it.
FillDiag ==
    /\ call.fn = "fill_diag"
    /\ ret = NoRet
    /\ ret' = fill_diag(call.rsm)
    /\ UNCHANGED <<call, nmfVars, genVars>>

----------------------------------------------------------------------------
(* utils.py: sort_weights, on the weight of the model's fc layer           *)
(* (latent dimensions x items).                                            *)

SortDims == 2        \* latent dimensions of a model handed to sort_weights
SortItems == 2       \* items of a model handed to sort_weights

\* load_weights(model, version='deterministic'): model.fc.weight.T
load_weights(fc_weight) == Transpose(fc_weight, Len(fc_weight), Len(fc_weight[1]))

RECURSIVE ColAbsSum(_, _, _)
ColAbsSum(W, d, i) == IF i = 0 THEN 0 ELSE Abs(W[i][d]) + ColAbsSum(W, d, i - 1)

\* W.norm(p=1, dim=0): the sum of |W[i][d]| over the rows i, for each column d.
l1_norms(W) == [d \in 1..Len(W[1]) |-> ColAbsSum(W, d, Len(W))]

ArgsortAscending(v) ==
    {[k \in 1..Len(v) |-> f[k] - 1] : f \in
        {g \in RandPerms(Len(v)) : \A k, l \in 1..Len(v) : k < l => v[g[k]] <= v[g[l]]}}

\* torch.argsort(v, descending=True): the orders (indices from 0) that list
\* the values from largest to smallest; equal values come in any order.
ArgsortDescending(v) ==
    {[k \in 1..Len(v) |-> f[k] - 1] : f \in
        {g \in RandPerms(Len(v)) : \A k, l \in 1..Len(v) : k < l => v[g[k]] >= v[g[l]]}}

\* sort_weights(model, aggregate) for the order argsort returned.
sort_weights(fc_weight, aggregate, sorted_dims) ==
    LET W == load_weights(fc_weight)
    IN  IF aggregate
        THEN <<sorted_dims, [k \in 1..Len(sorted_dims) |-> l1_norms(W)[sorted_dims[k] + 1]]>>
        ELSE <<sorted_dims,
               [i \in 1..Len(W) |-> [k \in 1..Len(sorted_dims) |-> W[i][sorted_dims[k] + 1]]]>>

\* The calls sort_weights(model, aggregate).
SortCall(c) ==
    \E d \in 1..SortDims, a \in BOOLEAN : \E w \in Matrices(d, SortItems, Vals) :
        c = [fn |-> "sort_weights", fc_weight |-> w, aggregate |-> a]

\* sort_weights returns.
SortWeights ==
    /\ call.fn = "sort_weights"
    /\ ret = NoRet
    /\ \E sorted_dims \in ArgsortDescending(l1_norms(load_weights(call.fc_weight))) :
          ret' = [status |-> "ok",
                  value |-> sort_weights(call.fc_weight, call.aggregate, sorted_dims)]
    /\ UNCHANGED <<call, nmfVars, genVars>>

----------------------------------------------------------------------------
(* utils.py: prune_weights.  A parameter name is the sequence of its       *)
(* characters; role says what the parameter is.                            *)

PruneDims == 3       \* latent dimensions of a model handed to prune_weights

\* re.match(pat, name): pat at the start of name.
Match(pat, name) == Len(pat) <= Len(name) /\ SubSeq(name, 1, Len(pat)) = pat

\* re.search(pat, name) for a literal pattern: pat somewhere in name.
Search(pat, name) ==
    \E k \in 0..(Len(name) - Len(pat)) : SubSeq(name, k + 1, k + Len(pat)) = pat

\* The patterns r'encoder' and r'weight'.
EncoderPattern == <<"e", "n", "c", "o", "d", "e", "r">>
WeightPattern == <<"w", "e", "i", "g", "h", "t">>

\* A weight of r rows and c columns and a bias of r entries; the entries
\* tell their places apart.
WeightData(r, c) == [i \in 1..r |-> [j \in 1..c |-> 10 * i + j]]
BiasData(r) == [i \in 1..r |-> 100 + i]

\* named_parameters() of a variational model: encoders from the items to
\* the latent dimensions, a decoder back.
VariationalModel ==
    <<[name |-> <<"e", "n", "c", "o", "d", "e", "r", "_", "m", "u", ".", "0", ".", "w", "e", "i", "g", "h", "t">>, role |-> "encoder weight",
       data |-> WeightData(PruneDims, PruneDims + 1)],
      [name |-> <<"e", "n", "c", "o", "d", "e", "r", "_", "m", "u", ".", "0", ".", "b", "i", "a", "s">>, role |-> "encoder bias", data |-> BiasData(PruneDims)],
      [name |-> <<"e", "n", "c", "o", "d", "e", "r", "_", "b", ".", "0", ".", "w", "e", "i", "g", "h", "t">>, role |-> "encoder weight",
       data |-> WeightData(PruneDims, PruneDims + 1)],
      [name |-> <<"e", "n", "c", "o", "d", "e", "r", "_", "b", ".", "0", ".", "b", "i", "a", "s">>, role |-> "encoder bias", data |-> BiasData(PruneDims)],
      [name |-> <<"d", "e", "c", "o", "d", "e", "r", ".", "0", ".", "w", "e", "i", "g", "h", "t">>, role |-> "decoder weight",
       data |-> WeightData(PruneDims + 1, PruneDims)],
      [name |-> <<"d", "e", "c", "o", "d", "e", "r", ".", "0", ".", "b", "i", "a", "s">>, role |-> "decoder bias", data |-> BiasData(PruneDims + 1)]>>

\* named_parameters() of a deterministic model: the fc layer.
DeterministicModel ==
    <<[name |-> <<"f", "c", ".", "w", "e", "i", "g", "h", "t">>, role |-> "fc weight",
       data |-> WeightData(PruneDims, PruneDims + 1)]>>

\* m.data[indices] and m.data[:, indices] for indices from 0.
TakeRows(data, indices) == [k \in 1..Len(indices) |-> data[indices[k] + 1]]
TakeCols(data, indices) ==
    [i \in 1..Len(data) |-> [k \in 1..Len(indices) |-> data[i][indices[k] + 1]]]

\* prune_weights(model, version, indices, fraction): the model, its
\* parameters rewritten in place.
prune_weights(model, version, indices, fraction) ==
    LET kept == Slice(indices, 0, IntTimes(Len(indices), fraction))
    IN  [q \in 1..Len(model) |->
            IF version = "variational"
            THEN IF Search(EncoderPattern, model[q].name)
                 THEN [model[q] EXCEPT !.data = TakeRows(@, kept)]
                 ELSE IF Search(WeightPattern, model[q].name)
                      THEN [model[q] EXCEPT !.data = TakeCols(@, kept)]
                      ELSE model[q]
            ELSE [model[q] EXCEPT !.data = TakeRows(@, kept)]]

\* The fractions of the dimensions to keep.
PruneFractions == Fractions \cup {<<0, 1>>, <<1, 3>>}

\* The calls prune_weights(model, version, indices, fraction): indices is an
\* order of the latent dimensions, as sort_weights and compute_kld return.
PruneCall(c) ==
    \E mv \in {<<VariationalModel, "variational">>, <<VariationalModel, "deterministic">>,
               <<DeterministicModel, "deterministic">>},
       ind \in ArgsortDescending([d \in 1..PruneDims |-> 0]), f \in PruneFractions :
        c = [fn |-> "prune_weights", model |-> mv[1], version |-> mv[2],
             indices |-> ind, fraction |-> f]

\* prune_weights returns.
PruneWeights ==
    /\ call.fn = "prune_weights"
    /\ ret = NoRet
    /\ ret' = [status |-> "ok",
               model |-> prune_weights(call.model, call.version, call.indices,
                                       call.fraction)]
    /\ UNCHANGED <<call, nmfVars, genVars>>

----------------------------------------------------------------------------
(* utils.py: get_ref_indices.                                              *)

MaxTargets == 4      \* entries of a targets array

\* np.zeros(n, dtype=int)
Zeros(n) == [k \in 1..n |-> 0]

\* cat in cats, for a numpy array cats.
InArray(cat, cats) == \E k \in DOMAIN cats : cats[k] = cat

\* The loop of get_ref_indices from position idx (from 0) on.
RECURSIVE RefLoop(_, _, _, _)
RefLoop(targets, idx, cats, indices) ==
    IF idx >= Len(targets) THEN indices
    ELSE LET cat == targets[idx + 1]
         IN  IF ~InArray(cat, cats)
             THEN RefLoop(targets, idx + 1, [cats EXCEPT ![cat + 1] = cat],
                          [indices EXCEPT ![cat + 1] = idx])
             ELSE RefLoop(targets, idx + 1, cats, indices)

\* get_ref_indices(targets)
get_ref_indices(targets) ==
    LET n_items == Cardinality({targets[k] : k \in DOMAIN targets})
    IN  RefLoop(targets, 0, Zeros(n_items), Zeros(n_items))

\* The calls get_ref_indices(targets), the categories of targets being
\* exactly 0..n-1.
RefCall(c) ==
    \E len \in 1..MaxTargets : \E n \in 1..len : \E t \in [1..len -> 0..(n - 1)] :
        /\ \A cat \in 0..(n - 1) : \E k \in 1..len : t[k] = cat
        /\ c = [fn |-> "get_ref_indices", targets |-> t]

\* get_ref_indices returns.
GetRefIndices ==
    /\ call.fn = "get_ref_indices"
    /\ ret = NoRet
    /\ ret' = [status |-> "ok", value |-> get_ref_indices(call.targets)]
    /\ UNCHANGED <<call, nmfVars, genVars>>

----------------------------------------------------------------------------
(* utils.py: validation.  The network is any model: what it computes for a *)
(* batch is a loss and an accuracy out of small sets, and a draw of each   *)
(* triplet's three choices.                                                *)

MaxValSet == 2       \* triplets of a validation set
MaxLoss == 2         \* the losses of a batch range over 1..MaxLoss

\* The batches a generator without sampling yields (get_batches): slice
\* after slice of the dataset, one-hot encoded.
ValBatches(I, dataset, batch_size) ==
    [i \in 1..(Len(dataset) \div batch_size) |->
        encode_as_onehot(I, Slice(dataset, (i - 1) * batch_size, i * batch_size))]

\* s[::-1]
Reverse(s) == [k \in 1..Len(s) |-> s[Len(s) + 1 - k]]

\* np.random.choice(h_choice, size=len(p), replace=False, p=p) for the
\* order draw of the positions: every entry of h_choice, once.
random_choice(h_choice, draw) == [k \in 1..Len(h_choice) |-> h_choice[draw[k]]]

\* np.zeros((rows, 3), dtype=int)
ZeroRows(rows) == [r \in 1..rows |-> <<0, 0, 0>>]

\* sampled_choices[a:b] += model_choices
AddRows(sampled_choices, a, model_choices) ==
    [r \in 1..Len(sampled_choices) |->
        IF r > a /\ r <= a + Len(model_choices)
        THEN [k \in 1..3 |-> sampled_choices[r][k] + model_choices[r - a][k]]
        ELSE sampled_choices[r]]

RECURSIVE SeqSum(_, _)
SeqSum(v, i) == IF i = 0 THEN 0 ELSE v[i] + SeqSum(v, i - 1)

\* torch.mean(v).item(): the sum over the length; nan for an empty tensor.
Mean(v) == IF Len(v) = 0 THEN <<"nan">> ELSE <<SeqSum(v, Len(v)), Len(v)>>

\* The calls validation(model, val_batches, task, device, sampling,
\* batch_size): val_batches as load_batches builds it over the test
\* triplets, batch_size None or the batch size of val_batches.
ValidationCall(c) ==
    \E n \in 0..MaxValSet, b \in 1..MaxBatch, s \in BOOLEAN :
        \E bs \in {None, Some(b)} :
            c = [fn |-> "validation",
                 val_batches |-> ValBatches(Eye(NItems), TestSet(n), b),
                 sampling |-> s, batch_size |-> bs]

\* validation up to its loop: the assertion, sampled_choices, the tensors
\* of losses and accuracies.  val_loss and val_acc are not bound yet.
ValidationEnter ==
    /\ call.fn = "validation"
    /\ ret = NoRet
    /\ ret' = IF call.sampling /\ call.batch_size = None
              THEN [status |-> "AssertionError", evaluated |-> 0]
              ELSE [status |-> "running", evaluated |-> 0, j |-> 0,
                    sampled_choices |->
                        IF call.sampling
                        THEN Some(ZeroRows(Len(call.val_batches) * call.batch_size[1]))
                        ELSE None,
                    val_loss |-> None, val_acc |-> None,
                    batch_losses_val |-> [k \in 1..Len(call.val_batches) |-> 0],
                    batch_accs_val |-> [k \in 1..Len(call.val_batches) |-> 0]]
    /\ UNCHANGED <<call, nmfVars, genVars>>

\* The locals after the branch of iteration j: the sampling branch draws the
\* choices of each triplet and adds them to sampled_choices, the other
\* branch binds val_loss and val_acc.
ValidationBranch(r, batch, draws, loss, acc) ==
    IF call.sampling
    THEN LET batch_size == call.batch_size[1]
             choices == human_choices(batch, batch_size)
             model_choices ==
                 [t \in 1..batch_size |-> Reverse(random_choice(choices[t], draws[t]))]
         IN  [r EXCEPT !.evaluated = @ + 1,
                       !.sampled_choices =
                           Some(AddRows(@[1], r.j * batch_size, model_choices))]
    ELSE [r EXCEPT !.evaluated = @ + 1, !.val_loss = Some(loss), !.val_acc = Some(acc)]

\* One iteration of the loop over val_batches: the branch, then
\* batch_losses_val[j] += val_loss.item() and batch_accs_val[j] += val_acc,
\* which read val_loss and val_acc whatever the branch was.
ValidationBatch ==
    /\ call.fn = "validation"
    /\ ret.status = "running"
    /\ ret.j < Len(call.val_batches)
    /\ \E draws \in [1..(Len(call.val_batches[ret.j + 1]) \div 3) -> RandPerms(3)],
          loss \in 1..MaxLoss, acc \in {0, 1} :
          LET r == ValidationBranch(ret, call.val_batches[ret.j + 1], draws, loss, acc)
          IN  ret' = IF r.val_loss = None \/ r.val_acc = None
                     THEN [r EXCEPT !.status = "UnboundLocalError"]
                     ELSE [r EXCEPT !.batch_losses_val[r.j + 1] = @ + r.val_loss[1],
                                    !.batch_accs_val[r.j + 1] = @ + r.val_acc[1],
                                    !.j = @ + 1]
    /\ UNCHANGED <<call, nmfVars, genVars>>

\* After the loop: sampled_choices, or the mean loss and accuracy.
ValidationReturn ==
    /\ call.fn = "validation"
    /\ ret.status = "running"
    /\ ret.j = Len(call.val_batches)
    /\ ret' = [status |-> "ok", evaluated |-> ret.evaluated,
               value |-> IF call.sampling
                         THEN ret.sampled_choices[1]
                         ELSE <<Mean(ret.batch_losses_val), Mean(ret.batch_accs_val)>>]
    /\ UNCHANGED <<call, nmfVars, genVars>>

----------------------------------------------------------------------------
(* utils.py: get_nitems, load_batches and encode_as_onehot in sequence, as *)
(* training runs them on the training triplets.                            *)

MaxItemId == 3       \* the item ids of training triplets range over 0..MaxItemId

\* The training triplets load_data returns: ids from 0 or from a greater
\* minimum.
TrainCall(c) ==
    \E k \in 1..MaxK : \E t \in [1..k -> [1..3 -> 0..MaxItemId]] :
        c = [fn |-> "train", train_triplets |-> t]

\* n_items = get_nitems(train_triplets), then load_batches builds
\* I = torch.eye(n_items).
BuildIdentity ==
    /\ call.fn = "train"
    /\ ret = NoRet
    /\ LET n_items == get_nitems(call.train_triplets)
       IN  ret' = [status |-> "loaded", n_items |-> n_items, I |-> Eye(n_items)]
    /\ UNCHANGED <<call, nmfVars, genVars>>

\* A batch of the training triplets is encoded: encode_as_onehot(I,
\* triplets[a:b]); indexing I outside its rows raises IndexError.
EncodeTrainBatch ==
    /\ call.fn = "train"
    /\ ret.status = "loaded"
    /\ \E a \in 0..(Len(call.train_triplets) - 1), b \in 1..Len(call.train_triplets) :
          /\ a < b
          /\ LET batch == Slice(call.train_triplets, a, b)
             IN  ret' = IF IndexError(ret.I, batch)
                        THEN [ret EXCEPT !.status = "IndexError"]
                        ELSE [status |-> "ok", n_items |-> ret.n_items, I |-> ret.I,
                              value |-> encode_as_onehot(ret.I, batch)]
    /\ UNCHANGED <<call, nmfVars, genVars>>

----------------------------------------------------------------------------
(* utils.py: compute_pm.  A probability is a whole number of units of      *)
(* 1 / ProbUnit; a pmf is three probabilities that sum to 1.               *)

ProbUnit == 20       \* probabilities are multiples of 1 / ProbUnit
MaxPmfs == 2         \* rows of a probas array
NBins == 11          \* np.zeros((2, 11)): the bins 0..10

Bins == 0..(NBins - 1)

\* The rows of probas: the softmax over the three choices of a triplet.
Pmfs == {pmf \in [1..3 -> 0..ProbUnit] : pmf[1] + pmf[2] + pmf[3] = ProbUnit}

\* np.round(p * 10).astype(int): to the nearest integer, a half to the even
\* one.
Round10(p) ==
    LET q == (10 * p) \div ProbUnit
        r == (10 * p) % ProbUnit
    IN  IF 2 * r < ProbUnit THEN q
        ELSE IF 2 * r > ProbUnit THEN q + 1
        ELSE IF q % 2 = 0 THEN q ELSE q + 1

\* row[indices] += 1 for an array indices: numpy reads row[indices], adds 1
\* and writes back, so a bin named more than once grows by one.
AddFancy(row, indices) ==
    [b \in Bins |-> IF \E k \in DOMAIN indices : indices[k] = b THEN row[b] + 1 ELSE row[b]]

\* avg_probas[int(indices[k])].append(p) for k, p in enumerate(pmf)
RECURSIVE AppendAll(_, _, _, _)
AppendAll(avg_probas, indices, pmf, k) ==
    IF k > Len(pmf) THEN avg_probas
    ELSE AppendAll([avg_probas EXCEPT ![indices[k]] = Append(@, pmf[k])],
                   indices, pmf, k + 1)

\* The loop of compute_pm from row i of probas on: count_vector and
\* avg_probas after the last row.
RECURSIVE PmLoop(_, _, _, _)
PmLoop(probas, i, count_vector, avg_probas) ==
    IF i > Len(probas) THEN [count_vector |-> count_vector, avg_probas |-> avg_probas]
    ELSE LET pmf == probas[i]
             indices == [k \in 1..Len(pmf) |-> Round10(pmf[k])]
             first == [count_vector[1] EXCEPT ![indices[1]] = @ + 1]
         IN  PmLoop(probas, i + 1, <<first, AddFancy(count_vector[2], indices)>>,
                    AppendAll(avg_probas, indices, pmf, 1))

\* count_vector[0] / count_vector[1]: nan where both are 0.
Ratio(num, den) == IF den = 0 THEN <<"nan">> ELSE <<num, den>>

\* The bins of s from b on, in ascending order.
RECURSIVE SortedFrom(_, _)
SortedFrom(s, b) ==
    IF b >= NBins THEN <<>>
    ELSE IF b \in s THEN <<b>> \o SortedFrom(s, b + 1) ELSE SortedFrom(s, b + 1)

\* get_global_averages: the mean of every bin that has an entry, by bin.
get_global_averages(avg_probas) ==
    LET sorted_bins == SortedFrom({b \in Bins : avg_probas[b] # <<>>}, 0)
    IN  [k \in 1..Len(sorted_bins) |-> Mean(avg_probas[sorted_bins[k]])]

\* compute_pm(probas), with the counts it divides.
compute_pm(probas) ==
    LET loop == PmLoop(probas, 1, <<[b \in Bins |-> 0], [b \in Bins |-> 0]>>,
                       [b \in Bins |-> <<>>])
    IN  [count_vector |-> loop.count_vector,
         model_confidences |->
             [b \in Bins |-> Ratio(loop.count_vector[1][b], loop.count_vector[2][b])],
         avg_probas |-> get_global_averages(loop.avg_probas)]

\* The calls compute_pm(probas).
PmCall(c) ==
    \E n \in 1..MaxPmfs : \E probas \in [1..n -> Pmfs] :
        c = [fn |-> "compute_pm", probas |-> probas]

\* compute_pm returns.
ComputePm ==
    /\ call.fn = "compute_pm"
    /\ ret = NoRet
    /\ ret' = [status |-> "ok", value |-> compute_pm(call.probas)]
    /\ UNCHANGED <<call, nmfVars, genVars>>

----------------------------------------------------------------------------
(* utils.py: matmul and rsm_pred, compiled with njit(parallel=True).  Of   *)
(* nested pranges the outermost runs in parallel: each of its iterations   *)
(* is a thread of its own here and runs its inner loops in order.  An      *)
(* update x[c] += v is a load of x[c] into the thread's register and a     *)
(* store of the sum.  Rows, columns and iterations count from 1.           *)

KernelDim == 2       \* rows and columns of the matrices handed to matmul
PredItems == 3       \* rows of a weight matrix handed to rsm_pred
Scale == 1000        \* the value 1 in the units of an RSM entry (1e-3)

\* np.zeros((r, c))
ZeroMatrix(r, c) == [i \in 1..r |-> [j \in 1..c |-> 0]]

\* matmul up to its loop: C = np.zeros((I, J)), no iteration begun.
matmul_enter(A, B) ==
    [A |-> A, B |-> B, C |-> ZeroMatrix(Len(A), Len(B[1])),
     pc |-> [i \in 1..Len(A) |-> 0], reg |-> [i \in 1..Len(A) |-> 0]]

\* The steps of one iteration of matmul's outer loop: a load and a store
\* for every j and k.
MatmulSteps(m) == 2 * Len(m.B[1]) * Len(m.B)

\* The next step of iteration i: C[i, j] += A[i, k] * B[k, j].
matmul_step(m, i) ==
    LET q == m.pc[i] \div 2
        j == (q \div Len(m.B)) + 1
        k == (q % Len(m.B)) + 1
    IN  IF m.pc[i] % 2 = 0
        THEN [m EXCEPT !.reg[i] = m.C[i][j], !.pc[i] = @ + 1]
        ELSE [m EXCEPT !.C[i][j] = m.reg[i] + m.A[i][k] * m.B[k][j], !.pc[i] = @ + 1]

\* np.exp on whole numbers: a power of two stands for the power of e.
RECURSIVE Exp(_)
Exp(s) == IF s = 0 THEN 1 ELSE 2 * Exp(s - 1)

MatExp(S) == [i \in 1..Len(S) |-> [j \in 1..Len(S[i]) |-> Exp(S[i][j])]]

\* The steps of iteration i of rsm_pred's outer loop: two for every j in
\* i+1..N and k in 1..N.
RsmSteps(N, i) == 2 * (N - i) * N

\* The next step of iteration i of rsm_pred's outer loop.
rsm_step(r, i) ==
    LET N == Len(r.S_e)
        q == r.pc[i] \div 2
        j == i + 1 + (q \div N)
        k == (q % N) + 1
        S_e == r.S_e
    IN  IF r.pc[i] % 2 = 0
        THEN IF k # i /\ k # j
             THEN [r EXCEPT !.reg[i] = r.rsm[i][j], !.pc[i] = @ + 1]
             ELSE [r EXCEPT !.pc[i] = @ + 2]
        ELSE [r EXCEPT !.rsm[i][j] =
                           r.reg[i] + (Scale * S_e[i][j]) \div
                                          (S_e[i][j] + S_e[i][k] + S_e[j][k]),
                       !.pc[i] = @ + 1]

\* rsm /= N - 2
RsmDivide(rsm, N) == [i \in 1..N |-> [j \in 1..N |-> rsm[i][j] \div (N - 2)]]

\* The calls matmul(A, B) and rsm_pred(W), W of three rows or more.
KernelCall(c) ==
    \/ \E A \in Matrices(KernelDim, KernelDim, {0, 1}),
          B \in Matrices(KernelDim, KernelDim, {0, 1}) :
          c = [fn |-> "matmul", A |-> A, B |-> B]
    \/ \E W \in Matrices(PredItems, 1, {0, 1}) : c = [fn |-> "rsm_pred", W |-> W]

\* matmul is entered.
MatmulEnter ==
    /\ call.fn = "matmul"
    /\ ret = NoRet
    /\ ret' = [status |-> "running", at |-> "matmul", m |-> matmul_enter(call.A, call.B)]
    /\ UNCHANGED <<call, nmfVars, genVars>>

\* rsm_pred is entered and calls matmul(W, W.T).
RsmEnter ==
    /\ call.fn = "rsm_pred"
    /\ ret = NoRet
    /\ ret' = [status |-> "running", at |-> "matmul",
               m |-> matmul_enter(call.W, Transpose(call.W, Len(call.W), Len(call.W[1])))]
    /\ UNCHANGED <<call, nmfVars, genVars>>

\* Some iteration of matmul's outer loop takes its next step.
MatmulIteration ==
    /\ ret.status = "running"
    /\ ret.at = "matmul"
    /\ \E i \in DOMAIN ret.m.pc :
          /\ ret.m.pc[i] < MatmulSteps(ret.m)
          /\ ret' = [ret EXCEPT !.m = matmul_step(@, i)]
    /\ UNCHANGED <<call, nmfVars, genVars>>

\* All iterations are over and matmul returns C to the caller of matmul.
MatmulReturn ==
    /\ call.fn = "matmul"
    /\ ret.status = "running"
    /\ \A i \in DOMAIN ret.m.pc : ret.m.pc[i] = MatmulSteps(ret.m)
    /\ ret' = [status |-> "ok", value |-> ret.m.C]
    /\ UNCHANGED <<call, nmfVars, genVars>>

\* matmul returns S to rsm_pred: S_e = np.exp(S), rsm = np.zeros((N, N)).
RsmExp ==
    /\ call.fn = "rsm_pred"
    /\ ret.status = "running"
    /\ ret.at = "matmul"
    /\ \A i \in DOMAIN ret.m.pc : ret.m.pc[i] = MatmulSteps(ret.m)
    /\ LET N == Len(call.W)
       IN  ret' = [status |-> "running", at |-> "loop", S_e |-> MatExp(ret.m.C),
                   rsm |-> ZeroMatrix(N, N),
                   pc |-> [i \in 1..N |-> 0], reg |-> [i \in 1..N |-> 0]]
    /\ UNCHANGED <<call, nmfVars, genVars>>

\* Some iteration of rsm_pred's outer loop takes its next step.
RsmIteration ==
    /\ ret.status = "running"
    /\ ret.at = "loop"
    /\ \E i \in DOMAIN ret.pc :
          /\ ret.pc[i] < RsmSteps(Len(ret.rsm), i)
          /\ ret' = rsm_step(ret, i)
    /\ UNCHANGED <<call, nmfVars, genVars>>

\* All iterations are over: rsm /= N - 2.
RsmScale ==
    /\ ret.status = "running"
    /\ ret.at = "loop"
    /\ \A i \in DOMAIN ret.pc : ret.pc[i] = RsmSteps(Len(ret.rsm), i)
    /\ ret' = [status |-> "running", at |-> "add",
               rsm |-> RsmDivide(ret.rsm, Len(ret.rsm)), added |-> {}]
    /\ UNCHANGED <<call, nmfVars, genVars>>

\* rsm += rsm.T, an array statement that parallel=True turns into a parallel
\* loop over the cells with the body rsm[i, j] = rsm[i, j] + rsm.T[i, j]:
\* rsm.T is a view of rsm, so the cell reads what its mirror holds by then.
RsmAddTranspose ==
    /\ ret.status = "running"
    /\ ret.at = "add"
    /\ \E i, j \in DOMAIN ret.rsm :
          /\ <<i, j>> \notin ret.added
          /\ ret' = [ret EXCEPT !.rsm[i][j] = ret.rsm[i][j] + ret.rsm[j][i],
                                !.added = @ \cup {<<i, j>>}]
    /\ UNCHANGED <<call, nmfVars, genVars>>

\* Every cell is added: rsm_pred returns rsm.
RsmReturn ==
    /\ ret.status = "running"
    /\ ret.at = "add"
    /\ ret.added = (DOMAIN ret.rsm) \X (DOMAIN ret.rsm)
    /\ ret' = [status |-> "ok", value |-> ret.rsm]
    /\ UNCHANGED <<call, nmfVars, genVars>>

----------------------------------------------------------------------------
(* The parts of the state a specification does not use stay idle.          *)

GenIdle == args = NoCall /\ loaded = NoRet /\ iter = NoIter
UtilIdle == call = NoCall /\ ret = NoRet

----------------------------------------------------------------------------
(* Training an NMF model: forward calls interleaved with updates.          *)

InitNMF == NMFInit /\ GenIdle /\ UtilIdle
NextNMF == Forward \/ Update
SpecNMF == InitNMF /\ [][NextNMF]_vars

\* C1: every component of the embedding returned by forward is non-negative,
\* for each of the four models, whatever values the trainable parameters
\* were set to before the call.
C1_EmbeddingNonNegative ==
    \A i \in DOMAIN logits : \A c \in DOMAIN logits[i] : logits[i][c] >= 0

\* A forward call of BatchNMF returned a non-zero embedding while W holds a
\* negative entry.
C1_Witness ==
    /\ net.kind = "BatchNMF"
    /\ \E i \in DOMAIN net.W : \E j \in DOMAIN net.W[i] : net.W[i][j] < 0
    /\ \E i \in DOMAIN logits : \E c \in DOMAIN logits[i] : logits[i][c] > 0

----------------------------------------------------------------------------
(* Loading the batches and running epochs over the generators.             *)

InitGen == LoadInit /\ NMFIdle /\ UtilIdle
NextGen == LoadBatches \/ Iter \/ NextBatch
SpecGen == InitGen /\ [][NextGen]_vars

\* A row with a single 1 and 0 everywhere else.
IsOneHot(row) ==
    \E c \in DOMAIN row : row[c] = 1 /\ \A d \in DOMAIN row : d # c => row[d] = 0

\* C2: an epoch over a BatchGenerator yields exactly len(generator) batches,
\* each of 3*batch_size one-hot rows, where len is N // batch_size ('normal',
\* None) or int(N*p) // batch_size ('soft'); the triplets after the last full
\* batch are not yielded.
C2_BatchesPerEpoch ==
    iter.state \in {"yielded", "exhausted"} =>
        LET g == loaded[iter.gen]
            N == Len(g.dataset)
            len == IF g.sampling_method = "soft"
                   THEN ((N * g.p[1][1]) \div g.p[1][2]) \div g.batch_size
                   ELSE N \div g.batch_size
        IN  /\ BatchGeneratorLen(g) = len
            /\ iter.count <= len
            /\ iter.count * g.batch_size <= N
            /\ iter.state = "yielded" =>
                  /\ Len(iter.batch) = 3 * g.batch_size
                  /\ \A r \in DOMAIN iter.batch : IsOneHot(iter.batch[r])
                  /\ iter.count = iter.i + 1
            /\ iter.state = "exhausted" => iter.count = len

\* A soft-sampled epoch ended after at least one batch and left sampled
\* triplets out.
C2_Witness ==
    /\ iter.state = "exhausted"
    /\ iter.gen = "train_batches"
    /\ loaded[iter.gen].sampling_method = "soft"
    /\ iter.count >= 1
    /\ Len(iter.triplets) > iter.count * loaded[iter.gen].batch_size

\* C3: with a sampling method, the rows an epoch works on are the dataset's
\* rows at the positions of a permutation of 1..N (cut to its first
\* int(N*p) positions for 'soft'): no position occurs twice, every yielded
\* triplet is the dataset's triplet at its position, and the dataset held
\* by the generator is the one load_batches was given.
C3_EpochSamplesDataset ==
    (iter.state \in {"yielded", "exhausted"}
        /\ loaded[iter.gen].sampling_method # "None") =>
        LET g == loaded[iter.gen]
            N == Len(g.dataset)
            pos == iter.positions
        IN  /\ \A k \in DOMAIN pos : pos[k] \in 1..N
            /\ \A k, l \in DOMAIN pos : pos[k] = pos[l] => k = l
            /\ Len(pos) = IF g.sampling_method = "soft" THEN IntTimes(N, g.p[1]) ELSE N
            /\ g.dataset = args.train_triplets[1]
            /\ iter.state = "yielded" =>
                  LET read == human_choices(iter.batch, g.batch_size)
                  IN  \A r \in 1..g.batch_size :
                         read[r] = g.dataset[pos[iter.i * g.batch_size + r]]

\* The second batch of an epoch was yielded from a permutation that is not
\* the identity.
C3_Witness ==
    /\ iter.state = "yielded"
    /\ loaded[iter.gen].sampling_method = "normal"
    /\ iter.i >= 1
    /\ \E k \in DOMAIN iter.positions : iter.positions[k] # k

\* C6: in a training call with multi_proc and n_gpus > 1 the training loader
\* is built over the whole training dataset whatever sampling_method and p
\* are, and warnings are emitted exactly for 'soft'; in the other training
\* calls that return, the training BatchGenerator got the given
\* sampling_method and p; a validation BatchGenerator has sampling_method
\* None.
C6_LoadBatchesSampling ==
    (args.fn = "load_batches" /\ loaded # NoRet /\ ~args.inference) =>
        IF args.multi_proc /\ args.n_gpus # None /\ args.n_gpus[1] > 1
        THEN /\ loaded.status = "ok"
             /\ loaded.kind = "loaders"
             /\ loaded.train_batches.dataset.dataset = args.train_triplets[1]
             /\ TripletDatasetLen(loaded.train_batches.dataset) = Len(args.train_triplets[1])
             /\ (loaded.warnings # <<>>) <=> (args.sampling_method = "soft")
        ELSE /\ loaded.warnings = <<>>
             /\ loaded.status = "ok" =>
                  /\ loaded.kind = "generators"
                  /\ loaded.train_batches.sampling_method = args.sampling_method
                  /\ loaded.train_batches.p = args.p
                  /\ loaded.train_batches.dataset = args.train_triplets[1]
                  /\ loaded.val_batches.sampling_method = "None"
             /\ loaded.status # "ok" =>
                  \/ args.multi_proc /\ args.n_gpus = None
                  \/ args.sampling_method = "soft" /\ args.p = None

\* A multi-process call asked for soft sampling and was warned.
C6_Witness ==
    /\ loaded.status = "ok"
    /\ loaded.kind = "loaders"
    /\ args.sampling_method = "soft"
    /\ args.p # None
    /\ Len(loaded.warnings) = 3
    /\ Len(args.train_triplets[1]) = MaxN

----------------------------------------------------------------------------
(* One-hot encoding of triplets.                                           *)

InitEncode == EncodeCall(call) /\ ret = NoRet /\ NMFIdle /\ GenIdle
NextEncode == EncodeAsOnehot
SpecEncode == InitEncode /\ [][NextEncode]_vars

\* C4: for k triplets over n_items items the encoding has 3k rows, row r
\* holds a single 1, in the column of the item id at flattened position r,
\* and 0 elsewhere; for k >= 1, reading back the non-zero columns and
\* regrouping them by three gives the triplets in their order.
C4_OneHotRoundTrip ==
    (call.fn = "encode_as_onehot" /\ ret # NoRet) =>
        LET k == Len(call.triplets)
        IN  /\ ret.status = "ok"
            /\ Len(ret.value) = 3 * k
            /\ \A r \in 1..(3 * k) :
                  /\ Len(ret.value[r]) = call.n_items
                  /\ \A c \in 1..call.n_items :
                        ret.value[r][c] =
                            IF c - 1 = call.triplets[((r - 1) \div 3) + 1][((r - 1) % 3) + 1]
                            THEN 1 ELSE 0
            /\ k >= 1 =>
                  /\ ~ViewError(nonzero(ret.value), k)
                  /\ human_choices(ret.value, k) = call.triplets

\* Two different triplets with a repeated item were encoded.
C4_Witness ==
    /\ call.fn = "encode_as_onehot"
    /\ ret # NoRet
    /\ Len(call.triplets) = 2
    /\ call.triplets[1] # call.triplets[2]
    /\ call.triplets[1][1] = call.triplets[1][3]
    /\ call.triplets[2][1] > call.triplets[2][2]

----------------------------------------------------------------------------
(* The number of items of a training set.                                  *)

InitNitems == NitemsCall(call) /\ ret = NoRet /\ NMFIdle /\ GenIdle
NextNitems == GetNitems
SpecNitems == InitNitems /\ [][NextNitems]_vars

\* The item ids that occur in a tensor of triplets.
ItemIds(t) == {t[i][j] : i \in DOMAIN t, j \in 1..3}

\* C5: get_nitems returns the number of distinct item ids that occur in the
\* training triplets.
C5_NitemsIsDistinctCount ==
    (call.fn = "get_nitems" /\ ret # NoRet) =>
        ret.value = Cardinality(ItemIds(call.train_triplets))

----------------------------------------------------------------------------
(* Filling the diagonal of an RSM.                                         *)

InitFillDiag == FillDiagCall(call) /\ ret = NoRet /\ NMFIdle /\ GenIdle
NextFillDiag == FillDiag
SpecFillDiag == InitFillDiag /\ [][NextFillDiag]_vars

IsSymmetric(m) == \A i, j \in DOMAIN m : m[i][j] = m[j][i]

\* The diagonal of after is 1 and the rest is as in before.
DiagFilled(before, after) ==
    \A i, j \in DOMAIN before :
        after[i][j] = IF i = j THEN One ELSE before[i][j]

\* C7 as stated: a symmetric input gets its diagonal filled with 1 and keeps
\* its other entries; a non-symmetric input fails with an AssertionError and
\* is left as it was.
C7_FillDiagExactSymmetry ==
    (call.fn = "fill_diag" /\ ret # NoRet) =>
        IF IsSymmetric(call.rsm)
        THEN ret.status = "ok" /\ DiagFilled(call.rsm, ret.rsm)
        ELSE ret.status = "AssertionError" /\ ret.rsm = call.rsm

\* Every pair of mirrored entries differs by at most 1e-8 + 1e-5 * |entry|.
SymmetricWithinTolerance(m) ==
    \A i, j \in DOMAIN m :
        (Abs(m[i][j] - m[j][i]) - 1) * 100000 <= Abs(m[j][i])

\* C7 (amended): an input symmetric within np.allclose's tolerance, as every
\* symmetric input is, gets its diagonal filled with 1 and keeps its other
\* entries; any other input fails with an AssertionError and is left as it
\* was.
C7_FillDiagWithinTolerance ==
    (call.fn = "fill_diag" /\ ret # NoRet) =>
        /\ IsSymmetric(call.rsm) => SymmetricWithinTolerance(call.rsm)
        /\ IF SymmetricWithinTolerance(call.rsm)
           THEN ret.status = "ok" /\ DiagFilled(call.rsm, ret.rsm)
           ELSE ret.status = "AssertionError" /\ ret.rsm = call.rsm

\* A matrix that is not symmetric, but is within the tolerance, had its
\* diagonal filled.
C7_Witness ==
    /\ call.fn = "fill_diag"
    /\ ret.status = "ok"
    /\ ~IsSymmetric(call.rsm)
    /\ ret.rsm # call.rsm

----------------------------------------------------------------------------
(* Sorting the latent dimensions of a model by their l1 norm.              *)

InitSort == SortCall(call) /\ ret = NoRet /\ NMFIdle /\ GenIdle
NextSort == SortWeights
SpecSort == InitSort /\ [][NextSort]_vars

\* The l1 norm of latent dimension d (from 0): the sum, over the items, of
\* the absolute weights of row d of fc.weight.
RECURSIVE RowAbsSum(_, _)
RowAbsSum(row, i) == IF i = 0 THEN 0 ELSE Abs(row[i]) + RowAbsSum(row, i - 1)
DimNorm(fc_weight, d) == RowAbsSum(fc_weight[d + 1], Len(fc_weight[d + 1]))

\* C8: sorted_dims is a permutation of all latent dimension indices along
\* which the l1 norms do not increase; with aggregate the second result is
\* those norms in that order, and without it the items x dimensions weight
\* matrix with its columns in that order, none dropped or duplicated.
C8_SortedByL1Norm ==
    (call.fn = "sort_weights" /\ ret # NoRet) =>
        LET w == call.fc_weight
            D == Len(w)
            sorted_dims == ret.value[1]
            second == ret.value[2]
        IN  /\ ret.status = "ok"
            /\ Len(sorted_dims) = D
            /\ \A d \in 0..(D - 1) :
                   Cardinality({k \in 1..D : sorted_dims[k] = d}) = 1
            /\ \A k, l \in 1..D :
                   k < l => DimNorm(w, sorted_dims[k]) >= DimNorm(w, sorted_dims[l])
            /\ call.aggregate =>
                   /\ Len(second) = D
                   /\ \A k \in 1..D : second[k] = DimNorm(w, sorted_dims[k])
            /\ ~call.aggregate =>
                   /\ Len(second) = Len(w[1])
                   /\ \A i \in 1..Len(w[1]) :
                          /\ Len(second[i]) = D
                          /\ \A k \in 1..D : second[i][k] = w[sorted_dims[k] + 1][i]

\* Two dimensions of different norms were put in another order than the
\* model had them in, and the weight matrix was returned.
C8_Witness ==
    /\ call.fn = "sort_weights"
    /\ ret.status = "ok"
    /\ ~call.aggregate
    /\ Len(call.fc_weight) >= 2
    /\ DimNorm(call.fc_weight, 0) < DimNorm(call.fc_weight, 1)
    /\ ret.value[1][1] # 0

----------------------------------------------------------------------------
(* Pruning the latent dimensions of a model.                               *)

InitPrune == PruneCall(call) /\ ret = NoRet /\ NMFIdle /\ GenIdle
NextPrune == PruneWeights
SpecPrune == InitPrune /\ [][NextPrune]_vars

\* The first int(len(indices) * fraction) entries of indices.
KeptIndices(indices, fraction) ==
    SubSeq(indices, 1, (Len(indices) * fraction[1]) \div fraction[2])

\* data restricted to kept along its first axis.
RestrictedFirst(before, after, kept) ==
    /\ Len(after) = Len(kept)
    /\ \A k \in 1..Len(kept) : after[k] = before[kept[k] + 1]

\* The matrix data restricted to kept along its second axis.
RestrictedSecond(before, after, kept) ==
    /\ Len(after) = Len(before)
    /\ \A i \in 1..Len(before) :
           /\ Len(after[i]) = Len(kept)
           /\ \A k \in 1..Len(kept) : after[i][k] = before[i][kept[k] + 1]

\* C9: with kept the first int(len(indices) * fraction) entries of indices,
\* the 'variational' version restricts every encoder parameter to kept along
\* its first axis and every decoder weight along its second axis and leaves
\* the decoder biases as they were; any other version restricts every
\* parameter along its first axis.  Names and order of the parameters stay.
C9_PrunesLatentDimension ==
    (call.fn = "prune_weights" /\ ret # NoRet) =>
        LET kept == KeptIndices(call.indices, call.fraction)
            before == call.model
            after == ret.model
        IN  /\ ret.status = "ok"
            /\ Len(after) = Len(before)
            /\ \A q \in 1..Len(before) :
                   /\ after[q].name = before[q].name
                   /\ after[q].role = before[q].role
                   /\ IF call.version = "variational"
                      THEN CASE before[q].role \in {"encoder weight", "encoder bias"} ->
                                    RestrictedFirst(before[q].data, after[q].data, kept)
                             [] before[q].role = "decoder weight" ->
                                    RestrictedSecond(before[q].data, after[q].data, kept)
                             [] OTHER -> after[q].data = before[q].data
                      ELSE RestrictedFirst(before[q].data, after[q].data, kept)

\* A variational model was pruned to some, not all, of its dimensions, in
\* an order other than the model's.
C9_Witness ==
    /\ call.fn = "prune_weights"
    /\ ret.status = "ok"
    /\ call.version = "variational"
    /\ Len(ret.model[1].data) \in 1..(Len(call.indices) - 1)
    /\ call.indices[1] # 0
    /\ ret.model[5].data # call.model[5].data

----------------------------------------------------------------------------
(* Reference indices of the categories of a targets array.                 *)

InitRef == RefCall(call) /\ ret = NoRet /\ NMFIdle /\ GenIdle
NextRef == GetRefIndices
SpecRef == InitRef /\ [][NextRef]_vars

\* The position (from 0) of the first occurrence of cat in targets.
FirstOccurrence(targets, cat) ==
    CHOOSE k \in 0..(Len(targets) - 1) :
        /\ targets[k + 1] = cat
        /\ \A l \in 0..(k - 1) : targets[l + 1] # cat

\* C10: for targets whose categories are exactly 0..n-1 the result has n
\* entries, and entry c is the position of the first occurrence of c in
\* targets.
C10_FirstOccurrences ==
    (call.fn = "get_ref_indices" /\ ret # NoRet) =>
        LET n == Cardinality({call.targets[k] : k \in DOMAIN call.targets})
        IN  /\ ret.status = "ok"
            /\ Len(ret.value) = n
            /\ \A cat \in 0..(n - 1) :
                   ret.value[cat + 1] = FirstOccurrence(call.targets, cat)

----------------------------------------------------------------------------
(* Validating a model on the batches of the validation set.                *)

InitValidation == ValidationCall(call) /\ ret = NoRet /\ NMFIdle /\ GenIdle
NextValidation == ValidationEnter \/ ValidationBatch \/ ValidationReturn
SpecValidation == InitValidation /\ [][NextValidation]_vars

\* The triplets of val_batches in order, read back from the batches.
ValidationTriplets(val_batches, batch_size) ==
    [r \in 1..(Len(val_batches) * batch_size) |->
        human_choices(val_batches[((r - 1) \div batch_size) + 1], batch_size)
            [((r - 1) % batch_size) + 1]]

IsPermutationOf(row, triplet) ==
    /\ Len(row) = Len(triplet)
    /\ \E f \in RandPerms(Len(triplet)) : \A k \in 1..Len(triplet) : row[k] = triplet[f[k]]

\* C11: validation with sampling=True and no integer batch_size fails with
\* an AssertionError before the model is evaluated; with an integer
\* batch_size it returns one row for each of the len(val_batches) *
\* batch_size validation triplets, a permutation of the triplet's ids.
C11_ValidationSampling ==
    (call.fn = "validation" /\ call.sampling /\ ret.status \notin {"none", "running"}) =>
        IF call.batch_size = None
        THEN ret.status = "AssertionError" /\ ret.evaluated = 0
        ELSE LET triplets == ValidationTriplets(call.val_batches, call.batch_size[1])
             IN  /\ ret.status = "ok"
                 /\ Len(ret.value) = Len(call.val_batches) * call.batch_size[1]
                 /\ \A r \in 1..Len(triplets) : IsPermutationOf(ret.value[r], triplets[r])

----------------------------------------------------------------------------
(* Encoding the training triplets with the identity of get_nitems rows.    *)

InitTrain == TrainCall(call) /\ ret = NoRet /\ NMFIdle /\ GenIdle
NextTrain == BuildIdentity \/ EncodeTrainBatch
SpecTrain == InitTrain /\ [][NextTrain]_vars

\* C12: with n_items = get_nitems(train_triplets) and I the n_items x
\* n_items identity, every item id of train_triplets is a row index of I
\* (0 <= id < n_items) and no batch of them raises IndexError when encoded,
\* whether the ids start at 0 or at a greater minimum.
C12_ItemIdsIndexIdentity ==
    (call.fn = "train" /\ ret # NoRet) =>
        /\ Len(ret.I) = ret.n_items
        /\ \A id \in ItemIds(call.train_triplets) : 0 <= id /\ id < ret.n_items
        /\ ret.status # "IndexError"

----------------------------------------------------------------------------
(* The probability mass of the model's choices, by bin.                    *)

InitPm == PmCall(call) /\ ret = NoRet /\ NMFIdle /\ GenIdle
NextPm == ComputePm
SpecPm == InitPm /\ [][NextPm]_vars

\* C13: for every bin b the denominator is the number of probabilities,
\* over all pmfs and the three choices of each, that round to b, the
\* numerator is the number of pmfs whose first probability rounds to b, the
\* numerator is at most the denominator, and the confidence of a non-empty
\* bin is their ratio.
C13_ProbabilityMassCounts ==
    (call.fn = "compute_pm" /\ ret # NoRet) =>
        LET probas == call.probas
            numerator == ret.value.count_vector[1]
            denominator == ret.value.count_vector[2]
        IN  \A b \in Bins :
                /\ denominator[b] =
                       Cardinality({ik \in (DOMAIN probas) \X (1..3) :
                                        Round10(probas[ik[1]][ik[2]]) = b})
                /\ numerator[b] =
                       Cardinality({i \in DOMAIN probas : Round10(probas[i][1]) = b})
                /\ numerator[b] <= denominator[b]
                /\ denominator[b] > 0 =>
                       ret.value.model_confidences[b] = <<numerator[b], denominator[b]>>

----------------------------------------------------------------------------
(* The parallel kernels that compute an RSM.                               *)

InitKernels == KernelCall(call) /\ ret = NoRet /\ NMFIdle /\ GenIdle
NextKernels ==
    \/ MatmulEnter \/ MatmulIteration \/ MatmulReturn
    \/ RsmEnter \/ RsmExp \/ RsmIteration \/ RsmScale \/ RsmAddTranspose \/ RsmReturn
SpecKernels == InitKernels /\ [][NextKernels]_vars

\* C14: whatever the interleaving of the parallel iterations, matmul returns
\* the matrix of the sequential loop, C[i, j] the sum over k of
\* A[i, k] * B[k, j], and rsm_pred returns a symmetric matrix with a zero
\* diagonal.
C14_KernelsRaceFree ==
    /\ (call.fn = "matmul" /\ ret.status = "ok") =>
           ret.value = MatMul(call.A, call.B, Len(call.B), Len(call.B[1]))
    /\ (call.fn = "rsm_pred" /\ ret.status = "ok") =>
           /\ IsSymmetric(ret.value)
           /\ \A i \in DOMAIN ret.value : ret.value[i][i] = 0

============================================================================
